---- MODULE Spec2Model ----
(***************************************************************************)
(* A model of foam (src/foam/cli.py): track / reset / list / undo over a   *)
(* filesystem of regular files, directories and symlinks.                  *)
(*                                                                         *)
(* A tree is a function from the paths that exist (sequences of segment    *)
(* names beneath an anchor) to nodes.  `fs` is the tree of the originals   *)
(* beneath the anchor ("/" or "C:\"), `store` is the tree beneath          *)
(* BACKUP_DIR; the path << >> of `store` is BACKUP_DIR itself, so the      *)
(* store exists iff << >> \in DOMAIN store.  BACKUP_DIR is assumed to lie  *)
(* outside every tracked folder.                                           *)
(***************************************************************************)
EXTENDS Integers, Sequences, FiniteSets, TLC

VARIABLES
  platform,  \* sys.platform: "posix" or "win"
  fs,        \* the tree of the originals
  store,     \* the tree beneath BACKUP_DIR
  denied,    \* originals the tool can neither read, remove nor create
  stuck,     \* objects of the store that cannot be removed
  snap,      \* the originals as they were at the most recent track
  req,       \* the folders the most recent track reported as tracked
  last,      \* what the most recent step was and what it reported
  ops,       \* invocations of foam so far
  changes    \* steps of the environment so far

vars == <<platform, fs, store, denied, stuck, snap, req, last, ops, changes>>

\* ---------------------------------------------------------------- bounds
\* the invocations of foam in a run, the steps of the environment in a run
\* and the symlinks followed in resolving one path
MaxOps == 3
MaxChanges == 1
MaxHops == 2

\* ------------------------------------------------------------ vocabulary
Names == {"d", "f", "l", "n"}
Platforms == {"posix", "win"}
Drive == "C"

\* the absolute symlink targets of the model, as target text :> path below
\* the anchor; every other target is the name of a sibling.  An absolute
\* target is looked up in the tree that is walked: foam stats a symlink of
\* the store only where the outcome does not depend on the target (lines
\* 150-152 and 171), the second level of the store apart, where the model
\* has no absolute symlink.
Absolute == ("/d/f" :> <<"d", "f">>)

File(c, w) == [k |-> "file", d |-> c, w |-> w]
Dir(w) == [k |-> "dir", d |-> "", w |-> w]
Link(t) == [k |-> "link", d |-> t, w |-> TRUE]
None == [k |-> "none", d |-> "", w |-> FALSE]

\* the result of resolving a path that cannot be resolved
NoPath == <<"?">>

EmptyTree == [p \in {} |-> None]

At(t, p) == IF p \in DOMAIN t THEN t[p] ELSE None

IsPrefix(r, p) == Len(r) <= Len(p) /\ SubSeq(p, 1, Len(r)) = r

Parent(p) == SubSeq(p, 1, Len(p) - 1)

Drop(t, S) == [p \in DOMAIN t \ S |-> t[p]]

Put(t, p, n) == [q \in DOMAIN t \cup {p} |-> IF q = p THEN n ELSE t[q]]

Beneath(t, r) == {p \in DOMAIN t : IsPrefix(r, p) /\ p # r}

\* ------------------------------------------------------- path resolution
\* Path resolution by the operating system: walks `rest` from the real
\* directory `cur`, following symlinks (whose targets are sibling names) in
\* every component but, when followLast is FALSE, the last one.
RECURSIVE Walk(_, _, _, _, _)
Walk(t, cur, rest, hops, followLast) ==
  IF rest = << >> THEN cur
  ELSE LET nxt == Append(cur, Head(rest))
           n == At(t, nxt)
           more == Tail(rest)
       IN IF n.k = "link" /\ (more # << >> \/ followLast)
            THEN IF hops = 0 THEN NoPath
                 ELSE IF n.d \in DOMAIN Absolute
                   THEN Walk(t, << >>, Absolute[n.d] \o more, hops - 1,
                             followLast)
                 ELSE Walk(t, cur, <<n.d>> \o more, hops - 1, followLast)
          ELSE IF more = << >> THEN nxt
          ELSE IF n.k = "dir" THEN Walk(t, nxt, more, hops, followLast)
          ELSE NoPath

\* os.stat view of a path (symlinks followed)
Real(t, p) == Walk(t, << >>, p, MaxHops, TRUE)

\* os.lstat view of a path (last component not followed)
LReal(t, p) == Walk(t, << >>, p, MaxHops, FALSE)

Exists(t, p) == Real(t, p) \in DOMAIN t

LExists(t, p) == LReal(t, p) \in DOMAIN t

IsDir(t, p) == At(t, Real(t, p)).k = "dir"

IsFile(t, p) == At(t, Real(t, p)).k = "file"

IsSymlink(t, p) == At(t, LReal(t, p)).k = "link"

\* os.scandir / Path.iterdir: the names in directory p, in directory order ord
Scandir(t, p, ord) ==
  LET r == Real(t, p)
  IN IF At(t, r).k # "dir" THEN << >>
     ELSE SelectSeq(<<Drive>> \o ord, LAMBDA n : Append(r, n) \in DOMAIN t)

\* ------------------------------------------------------------ primitives
\* Path.mkdir(parents=True, exist_ok=True).  Paths in `deny` cannot be
\* created.  The result is the tree and whether the call returned normally.
\* os.mkdir at the resolved location l, unless making the parent failed
\* (r is the outcome of making the parent)
MkdirAt(r, l, deny) ==
  IF ~r.ok \/ l \in deny THEN [t |-> r.t, ok |-> FALSE]
  ELSE [t |-> Put(r.t, l, Dir(TRUE)), ok |-> TRUE]

\* the last step of mkdir: the directory p itself, once its parent is there
Mkdir(r, p, deny) == MkdirAt(r, LReal(r.t, p), deny)

RECURSIVE MkdirP(_, _, _)
MkdirP(t, p, deny) ==
  IF IsDir(t, p) THEN [t |-> t, ok |-> TRUE]
  ELSE IF LExists(t, p) THEN [t |-> t, ok |-> FALSE]
  ELSE IF p = << >> THEN [t |-> Put(t, p, Dir(TRUE)), ok |-> TRUE]
  ELSE IF IsDir(t, Parent(p))
    THEN Mkdir([t |-> t, ok |-> TRUE], p, deny)
  ELSE IF LExists(t, Parent(p)) THEN [t |-> t, ok |-> FALSE]
  ELSE Mkdir(MkdirP(t, Parent(p), deny), p, deny)

\* os.unlink of the object at the resolved location l
UnlinkAt(t, l, deny) ==
  IF l \notin DOMAIN t \/ l \in deny THEN [t |-> t, ok |-> FALSE]
  ELSE [t |-> Drop(t, {l}), ok |-> TRUE]

\* os.unlink / Path.unlink of the object at p itself
Unlink(t, p, deny) == UnlinkAt(t, LReal(t, p), deny)

\* shutil.rmtree(p) without an error handler: removes the entries of the
\* real directory p in directory order, children before their directory,
\* and raises at the first object that cannot be removed; a directory of
\* `deny` cannot be listed.
RECURSIVE RmTree(_, _, _, _)
RECURSIVE RmEntries(_, _, _, _, _)
\* os.rmdir(p) once the entries are gone (r is the outcome of removing them)
Rmdir(r, p, deny) ==
  IF ~r.ok \/ p \in deny THEN [t |-> r.t, ok |-> FALSE]
  ELSE [t |-> Drop(r.t, {p}), ok |-> TRUE]

RmTree(t, p, ord, deny) ==
  IF p \in deny THEN [t |-> t, ok |-> FALSE]
  ELSE Rmdir(RmEntries(t, p, Scandir(t, p, ord), ord, deny), p, deny)

\* one entry q of the directory: a directory is removed recursively,
\* anything else is unlinked
RmEntry(t, q, ord, deny) ==
  IF t[q].k = "dir" THEN RmTree(t, q, ord, deny) ELSE UnlinkAt(t, q, deny)

\* the remaining entries, unless removing the entry before them raised
RmRest(r, p, names, ord, deny) ==
  IF r.ok THEN RmEntries(r.t, p, names, ord, deny) ELSE r

RmEntries(t, p, names, ord, deny) ==
  IF names = << >> THEN [t |-> t, ok |-> TRUE]
  ELSE RmRest(RmEntry(t, Append(p, Head(names)), ord, deny),
              p, Tail(names), ord, deny)

\* ------------------------------------------------------------------ track
\* remove_readonly: the error handler chmods the object that could not be
\* removed to WRITE_PERMISSION and retries; the object stays if the retry
\* fails too.  (os.chmod on a symlink acts on its target, not on the link.)
remove_readonly(n) == IF n.k = "link" THEN n ELSE [n EXCEPT !.w = TRUE]

\* shutil.rmtree(BACKUP_DIR, onerror=remove_readonly): never raises; what is
\* left is every object of `stk` and the directories that still hold one.
ClearStore(t, stk) ==
  LET left == {q \in DOMAIN t : \E s \in stk \cap DOMAIN t : IsPrefix(q, s)}
  IN [q \in left |-> remove_readonly(t[q])]

\* what the chmod of remove_readonly does to the originals `src`: for a
\* symlink of the store that could not be removed, os.chmod follows the
\* link, and an absolute target is an original
ChmodThrough(src, t, stk, deny) ==
  [p \in DOMAIN src |->
     IF p \notin deny
        /\ \E q \in stk \cap DOMAIN t :
              /\ t[q].k = "link"
              /\ t[q].d \in DOMAIN Absolute
              /\ Real(src, Absolute[t[q].d]) = p
       THEN remove_readonly(src[p])
     ELSE src[p]]

ensure_backup_dir(t) ==
  IF << >> \in DOMAIN t THEN t ELSE Put(t, << >>, Dir(TRUE))

\* the anchor as a folder name: "C:\" -> "C", "/" -> "" (no segment)
AnchorSeg(pf) == IF pf = "win" THEN <<Drive>> ELSE << >>

\* dest = BACKUP_DIR / anchor / relative_path
Dest(pf, folder_path) == AnchorSeg(pf) \o folder_path

\* copy_with_permissions for a regular file, copystat for a directory, and
\* os.symlink for a symlink, as shutil.copytree(symlinks=True) applies them
CopyNode(n) ==
  IF n.k = "file" THEN File(n.d, TRUE)
  ELSE IF n.k = "dir" THEN Dir(n.w)
  ELSE n

\* the objects of the tree at r that copytree can read: an object of `deny`
\* is reported and skipped together with everything beneath it
Copyable(t, r, deny) ==
  {p \in DOMAIN t : IsPrefix(r, p)
                    /\ ~\E q \in deny : IsPrefix(r, q) /\ IsPrefix(q, p)}

\* shutil.copytree(folder_path, dest, copy_function=copy_with_permissions,
\* symlinks=True): fails at once when dest exists, otherwise copies what it
\* can and raises at the end when anything was skipped.
CopyTree(src, r, t, dest, deny) ==
  IF LExists(t, dest) THEN [t |-> t, ok |-> FALSE]
  ELSE LET cp == Copyable(src, r, deny)
           to(p) == dest \o SubSeq(p, Len(r) + 1, Len(p))
           new == {to(p) : p \in cp}
           from(q) == r \o SubSeq(q, Len(dest) + 1, Len(q))
       IN [t |-> [q \in DOMAIN t \cup new |->
                    IF q \in new THEN CopyNode(src[from(q)]) ELSE t[q]],
           ok |-> cp = {p \in DOMAIN src : IsPrefix(r, p)}]

\* the loop of track over the folders: the store, the folders reported as
\* tracked, and whether an exception left the loop
RECURSIVE TrackFolders(_, _, _, _, _, _)
TrackFolders(pf, src, t, folders, deny, done) ==
  IF folders = << >> THEN [t |-> t, tracked |-> done, crashed |-> FALSE]
  ELSE LET folder_path == Real(src, Head(folders))
       IN IF ~(At(src, folder_path).k = "dir")
            THEN TrackFolders(pf, src, t, Tail(folders), deny, done)
          ELSE LET dest == Dest(pf, folder_path)
                   m == MkdirP(t, Parent(dest), {})
                   c == CopyTree(src, folder_path, m.t, dest, deny)
               IN IF ~m.ok THEN [t |-> m.t, tracked |-> done, crashed |-> TRUE]
                  ELSE TrackFolders(pf, src, c.t, Tail(folders), deny,
                                    IF c.ok THEN done \cup {folder_path} ELSE done)

track(pf, src, t, folders, deny, stk) ==
  TrackFolders(pf, ChmodThrough(src, t, stk, deny),
               ensure_backup_dir(ClearStore(t, stk)), folders, deny, {})

\* ------------------------------------------------------------------ reset
\* root_path of a folder of the store: "/" or the drive of the first
\* segment, then the remaining segments (the model has the one drive)
ToOriginal(pf, relative_path) ==
  IF pf = "win" THEN Tail(relative_path) ELSE relative_path

\* the inner loop of the two-level walk: the folders beneath one first-level
\* directory of the store, as pairs <<root_path, backup_folder_path>>
RECURSIVE RootsIn(_, _, _, _)
RootsIn(pf, t, drive, names) ==
  IF names = << >> THEN << >>
  ELSE LET backup_folder_path == <<drive, Head(names)>>
       IN (IF IsDir(t, backup_folder_path)
             THEN << <<ToOriginal(pf, backup_folder_path), backup_folder_path>> >>
             ELSE << >>)
          \o RootsIn(pf, t, drive, Tail(names))

\* the outer loop of the two-level walk over BACKUP_DIR
RECURSIVE RootsOf(_, _, _, _)
RootsOf(pf, t, drives, ord) ==
  IF drives = << >> THEN << >>
  ELSE (IF IsDir(t, <<Head(drives)>>)
          THEN RootsIn(pf, t, Head(drives), Scandir(t, <<Head(drives)>>, ord))
          ELSE << >>)
       \o RootsOf(pf, t, Tail(drives), ord)

tracked_roots(pf, t, ord) == RootsOf(pf, t, Scandir(t, << >>, ord), ord)

\* Path.rglob('*'): the directories beneath b in pre-order (symlinks to
\* directories are not entered), and for each its entries in directory order
RECURSIVE GlobDirs(_, _, _)
RECURSIVE SubDirs(_, _, _, _)
GlobDirs(t, b, ord) == <<b>> \o SubDirs(t, b, Scandir(t, b, ord), ord)

SubDirs(t, b, names, ord) ==
  IF names = << >> THEN << >>
  ELSE LET c == Append(b, Head(names))
       IN (IF At(t, LReal(t, c)).k = "dir" THEN GlobDirs(t, c, ord) ELSE << >>)
          \o SubDirs(t, b, Tail(names), ord)

Listing(t, b, ord) ==
  LET names == Scandir(t, b, ord)
  IN [i \in 1..Len(names) |-> Append(b, names[i])]

RECURSIVE ListAll(_, _, _)
ListAll(t, dirs, ord) ==
  IF dirs = << >> THEN << >>
  ELSE Listing(t, Head(dirs), ord) \o ListAll(t, Tail(dirs), ord)

rglob(t, b, ord) == ListAll(t, GlobDirs(t, b, ord), ord)

\* lines 146-148: the entries of one tracked root, from what rglob found
EntriesOf(root_path, root_backup_path, found) ==
  [i \in 1..Len(found) |->
     [root |-> root_path,
      orig |-> root_path \o SubSeq(found[i], Len(root_backup_path) + 1,
                                   Len(found[i])),
      bk |-> found[i]]]

\* paths_to_reset: for each tracked root, every entry beneath its backup
\* folder as [root, orig, bk] = (root_path, original_path, backup_path)
RECURSIVE paths_to_reset(_, _, _)
paths_to_reset(t, roots, ord) ==
  IF roots = << >> THEN << >>
  ELSE EntriesOf(Head(roots)[1], Head(roots)[2],
                 rglob(t, Head(roots)[2], ord))
       \o paths_to_reset(t, Tail(roots), ord)

IsBackupDir(t, e) == IsDir(t, e.bk) /\ ~IsSymlink(t, e.bk)

IsBackupFile(t, e) == IsFile(t, e.bk) \/ IsSymlink(t, e.bk)

\* stats['directories'], a set of original paths
StatDirectories(t, entries) ==
  {entries[i].orig : i \in {j \in 1..Len(entries) : IsBackupDir(t, entries[j])}}

\* stats['files'], a counter
StatFiles(t, entries) ==
  Cardinality({i \in 1..Len(entries) :
                 ~IsBackupDir(t, entries[i]) /\ IsBackupFile(t, entries[i])})

\* the write of shutil.copy2 at the location `into`
WriteAt(t, n, into, deny) ==
  IF into = NoPath \/ into \in deny \/ At(t, into).k \in {"dir", "link"}
    THEN [t |-> t, ok |-> FALSE]
  ELSE [t |-> Put(t, into, n), ok |-> TRUE]

\* shutil.copy2 with the destination resolved to d: into a directory at the
\* destination, under the name of the source
WriteInto(t, n, d, name, deny) ==
  WriteAt(t, n, IF At(t, d).k = "dir" THEN Append(d, name) ELSE d, deny)

\* shutil.copy2(backup_path, original_path): writes through a symlink at the
\* destination
Copy2(t, n, p, name, deny) == WriteInto(t, n, Real(t, p), name, deny)

\* os.symlink(target, original_path), with original_path resolved to l
SymlinkAt(t, target, l, deny) ==
  IF l = NoPath \/ l \in DOMAIN t \/ l \in deny THEN [t |-> t, ok |-> FALSE]
  ELSE [t |-> Put(t, l, Link(target)), ok |-> TRUE]

Symlink(t, target, p, deny) == SymlinkAt(t, target, LReal(t, p), deny)

\* lines 159-168: remove what exists at original_path
Prepare(t, e, ord, deny) ==
  IF ~Exists(t, e.orig) THEN [t |-> t, ok |-> TRUE]
  ELSE IF IsFile(t, e.orig) \/ IsSymlink(t, e.orig) THEN Unlink(t, e.orig, deny)
  ELSE RmTree(t, LReal(t, e.orig), ord, deny)

\* lines 170-181: recreate the entry from the backup
\* lines 173-176: the symlink or the file, once the parent is there (m is
\* the outcome of original_path.parent.mkdir)
RestoreInto(m, st, e, deny) ==
  IF ~m.ok THEN m
  ELSE IF IsSymlink(st, e.bk)
    THEN Symlink(m.t, At(st, LReal(st, e.bk)).d, e.orig, deny)
  ELSE Copy2(m.t, At(st, Real(st, e.bk)), e.orig, e.bk[Len(e.bk)], deny)

Restore(t, st, e, deny) ==
  IF IsFile(st, e.bk) \/ IsSymlink(st, e.bk)
    THEN RestoreInto(MkdirP(t, Parent(e.orig), deny), st, e, deny)
  ELSE MkdirP(t, e.orig, deny)

\* the pass state after an entry whose original was removed (a) and which
\* was then recreated or not (b)
Recreated(s, a, b) ==
  [t |-> b.t, crashed |-> FALSE, seen |-> s.seen,
   errors |-> IF b.ok THEN s.errors ELSE s.errors + 1,
   removed |-> s.removed \cup (DOMAIN s.t \ DOMAIN a.t),
   undone |-> s.undone \cup ((DOMAIN s.t \ DOMAIN a.t) \cap s.created),
   created |-> s.created \cup (DOMAIN b.t \ DOMAIN a.t)]

\* lines 165-181: after the removal a, count the error and `continue`, or
\* go on to recreate the entry
Prepared(s, st, e, deny, a) ==
  IF ~a.ok
    THEN [s EXCEPT !.t = a.t, !.errors = @ + 1,
                   !.removed = @ \cup (DOMAIN s.t \ DOMAIN a.t),
                   !.undone = @ \cup ((DOMAIN s.t \ DOMAIN a.t) \cap s.created)]
  ELSE Recreated(s, a, Restore(a.t, st, e, deny))

\* line 159 is outside the try: original_path.exists() raises
\* PermissionError when a directory on the way to original_path is one of
\* `deny` (a directory without permissions cannot be searched)
StatRaises(t, p, deny) ==
  \E q \in deny : At(t, q).k = "dir" /\ IsPrefix(q, Real(t, Parent(p)))

\* lines 159-181 for an entry that is not a root
Attempt(s, st, e, ord, deny) ==
  IF StatRaises(s.t, e.orig, deny) THEN [s EXCEPT !.crashed = TRUE]
  ELSE Prepared([s EXCEPT !.seen = @ + 1], st, e, deny,
                Prepare(s.t, e, ord, deny))

\* one iteration of the restore pass (lines 155-181) on the pass state
\* s = [t, crashed, seen, errors, removed, created, undone] (undone: what
\* an earlier iteration created and a later one removed); nothing runs
\* after the exception of an earlier iteration
RestoreStep(s, st, e, ord, deny) ==
  IF s.crashed THEN s
  ELSE IF e.orig = e.root THEN [s EXCEPT !.seen = @ + 1]
  ELSE Attempt(s, st, e, ord, deny)

\* the restore pass: the iterations in the order of paths_to_reset, each on
\* the state the one before it left
RECURSIVE RestorePass(_, _, _, _, _)
RestorePass(s, st, entries, ord, deny) ==
  IF entries = << >> THEN s
  ELSE CHOOSE r \in {RestorePass(n, st, Tail(entries), ord, deny) :
                       n \in {RestoreStep(s, st, Head(entries), ord, deny)}} : TRUE

\* what one call of an operation reports and, for the properties, what it did
Quiet ==
  [op |-> "init", given |-> FALSE, nothing |-> FALSE, refused |-> FALSE,
   crashed |-> FALSE, errors |-> 0, dirs |-> 0, files |-> 0, roots |-> {},
   seen |-> 0, removed |-> {}, created |-> {}, undone |-> {}]

\* a reset that cleans the backup up after restoring
StoreConsumed(st) == EmptyTree

\* the store after reset: "Removed the backup cleanup code from here"
StoreAfterReset(st) == st

\* lines 185-190: the summary, after the pass ended in s
Summary(st, folders, root_dirs, entries, s) ==
  [t |-> s.t, st |-> StoreAfterReset(st),
   out |-> [Quiet EXCEPT !.op = "reset",
                         !.given = folders # << >>,
                         !.crashed = s.crashed,
                         !.seen = s.seen,
                         !.errors = s.errors,
                         !.dirs = Cardinality(StatDirectories(st, entries))
                                  - Cardinality(root_dirs),
                         !.files = StatFiles(st, entries),
                         !.roots = root_dirs,
                         !.removed = s.removed,
                         !.created = s.created,
                         !.undone = s.undone]]

\* lines 155-190: the restore pass over the entries
ResetEntries(t, st, folders, roots, entries, ord, deny) ==
  Summary(st, folders, {roots[i][1] : i \in 1..Len(roots)}, entries,
          RestorePass([t |-> t, crashed |-> FALSE, seen |-> 0, errors |-> 0,
                       removed |-> {}, created |-> {}, undone |-> {}],
                      st, entries, ord, deny))

\* lines 142-190: the entries of the roots
ResetRoots(t, st, folders, roots, ord, deny) ==
  ResetEntries(t, st, folders, roots, paths_to_reset(st, roots, ord), ord, deny)

\* lines 120-190 of reset: enumerate, restore, report
ResetAll(pf, t, st, folders, ord, deny) ==
  ResetRoots(t, st, folders, tracked_roots(pf, st, ord), ord, deny)

\* a reset that ignores its folders argument
ResetIgnoringFolders(pf, t, st, folders, ord, deny) ==
  IF ~Exists(st, << >>)
    THEN [t |-> t, st |-> st,
          out |-> [Quiet EXCEPT !.op = "reset", !.given = folders # << >>,
                                !.nothing = TRUE]]
  ELSE ResetAll(pf, t, st, folders, ord, deny)

\* reset(folders): the originals, the store and the report
reset(pf, t, st, folders, ord, deny) ==
  IF ~Exists(st, << >>)
    THEN [t |-> t, st |-> st,
          out |-> [Quiet EXCEPT !.op = "reset", !.given = folders # << >>,
                                !.nothing = TRUE]]
  ELSE IF folders # << >>
    THEN [t |-> t, st |-> st,
          out |-> [Quiet EXCEPT !.op = "reset", !.given = TRUE, !.refused = TRUE]]
  ELSE ResetAll(pf, t, st, folders, ord, deny)

\* ----------------------------------------------------------- list / undo
\* list prints the same roots in every directory order; the report is a set
SomeOrder == <<"d", "f", "l", "n">>

list_tracked_folders(pf, st) ==
  IF ~Exists(st, << >>) THEN [Quiet EXCEPT !.op = "list", !.nothing = TRUE]
  ELSE LET roots == tracked_roots(pf, st, SomeOrder)
       IN [Quiet EXCEPT !.op = "list",
                        !.roots = {roots[i][1] : i \in 1..Len(roots)}]

undo_tracking(st, stk) ==
  IF ~Exists(st, << >>) THEN st ELSE ClearStore(st, stk)

\* ------------------------------------------------------------ the system
\* the originals at the start: a read-only file, a symlink to a directory,
\* a dangling symlink, a read-only directory, a symlink to a file and a
\* symlink with an absolute target
InitTree ==
  (<< >> :> Dir(TRUE)) @@
  (<<"f">> :> File("hi", TRUE)) @@
  (<<"d">> :> Dir(TRUE)) @@
  (<<"d", "f">> :> File("hi", FALSE)) @@
  (<<"d", "l">> :> Link("d")) @@
  (<<"d", "d">> :> Dir(TRUE)) @@
  (<<"d", "d", "f">> :> File("hi", TRUE)) @@
  (<<"d", "d", "l">> :> Link("n")) @@
  (<<"d", "d", "d">> :> Dir(FALSE)) @@
  (<<"d", "d", "d", "f">> :> File("hi", TRUE)) @@
  (<<"d", "d", "d", "l">> :> Link("f")) @@
  (<<"d", "d", "d", "n">> :> Link("/d/f"))

\* the folder lists tried: a directory one, two and three levels below the
\* anchor, a path that does not exist, the missing path before and after a
\* directory, and a directory with one that lies inside it
FolderLists ==
  {<<(<<"d">>)>>, <<(<<"d", "d">>)>>, <<(<<"d", "d", "d">>)>>, <<(<<"l">>)>>,
   <<(<<"l">>), <<"d", "d">>>>, <<(<<"d", "d">>), <<"l">>>>,
   <<(<<"d", "d">>), <<"d", "d", "d">>>>}

\* the folder arguments that track takes for directories, resolved
ValidFolders(t, folders) ==
  {Real(t, folders[i]) : i \in {j \in DOMAIN folders : IsDir(t, folders[j])}}

\* the directory orders os.scandir produces in the model: two opposite
\* orders, so that every two names are met in either order
Orders == {<<"d", "f", "l", "n">>, <<"n", "l", "f", "d">>}

\* the directory whose entries the environment touches
Workdir == <<"d", "d">>

\* the edits tried, as <<name, new node>>: a file gets new content, is
\* replaced by a dangling symlink or is deleted, a file is created, a
\* symlink is deleted
Edits ==
  {<<"f", File("bye", TRUE)>>, <<"f", Link("n")>>, <<"f", None>>,
   <<"n", File("bye", TRUE)>>, <<"l", None>>}

\* the names the environment makes inaccessible
FaultNames == {"f", "d"}

\* the originals whose copies in the store the environment makes
\* unremovable
Sticky == {<<"d", "d", "f">>, <<"d", "d", "d">>, <<"d", "d", "d", "n">>}

\* what the most recent track was asked and what it reported
NoSnapshot == [tracked |-> {}, skipped |-> FALSE]

Init ==
  /\ platform \in Platforms
  /\ fs = InitTree
  /\ store = EmptyTree
  /\ denied = {}
  /\ stuck = {}
  /\ snap = EmptyTree
  /\ req = NoSnapshot
  /\ last = Quiet
  /\ ops = 0
  /\ changes = 0

\* foam track folders...
Track(folders) ==
  /\ ops < MaxOps
  /\ \E r \in {track(platform, fs, store, folders, denied, stuck)} :
        /\ store' = r.t
        /\ stuck' = stuck \cap DOMAIN r.t
        /\ req' = [tracked |-> r.tracked,
                    skipped |-> \E i \in DOMAIN folders : ~IsDir(fs, folders[i])]
        /\ last' = [Quiet EXCEPT !.op = "track", !.crashed = r.crashed,
                                 !.roots = ValidFolders(fs, folders)]
  /\ fs' = ChmodThrough(fs, store, stuck, denied)
  /\ snap' = fs'
  /\ ops' = ops + 1
  /\ UNCHANGED <<platform, denied, changes>>

\* foam reset (the entry point passes no folders; the function accepts some)
Reset(folders, ord) ==
  /\ ops < MaxOps
  /\ \E r \in {reset(platform, fs, store, folders, ord, denied)} :
        /\ fs' = r.t
        /\ store' = r.st
        /\ last' = r.out
  /\ ops' = ops + 1
  /\ UNCHANGED <<platform, denied, stuck, snap, req, changes>>

\* foam track --list
List ==
  /\ ops < MaxOps
  /\ last' = list_tracked_folders(platform, store)
  /\ ops' = ops + 1
  /\ UNCHANGED <<platform, fs, store, denied, stuck, snap, req, changes>>

\* foam track --undo
Undo ==
  /\ ops < MaxOps
  /\ store' = undo_tracking(store, stuck)
  /\ stuck' = stuck \cap DOMAIN store'
  /\ last' = [Quiet EXCEPT !.op = "undo", !.nothing = ~Exists(store, << >>)]
  /\ snap' = IF Exists(store, << >>) THEN EmptyTree ELSE snap
  /\ req' = IF Exists(store, << >>) THEN NoSnapshot ELSE req
  /\ fs' = ChmodThrough(fs, store, stuck, denied)
  /\ ops' = ops + 1
  /\ UNCHANGED <<platform, denied, changes>>

\* the owner of the originals replaces, creates or deletes one object of
\* Workdir (the model follows the environment from the first snapshot on)
Edit(name, n) ==
  /\ changes < MaxChanges
  /\ ops < MaxOps
  /\ Exists(store, << >>)
  /\ At(fs, Workdir).k = "dir"
  /\ LET p == Append(Workdir, name)
         cleared == Drop(fs, {q \in DOMAIN fs : IsPrefix(p, q)})
     IN /\ fs' = IF n = None THEN cleared ELSE Put(cleared, p, n)
        /\ fs' # fs
  /\ changes' = changes + 1
  /\ last' = [Quiet EXCEPT !.op = "edit"]
  /\ UNCHANGED <<platform, store, denied, stuck, snap, req, ops>>

\* the environment makes an original inaccessible to the tool (it can be
\* neither read, removed nor created)
Deny(p) ==
  /\ changes < MaxChanges
  /\ ops < MaxOps
  /\ Exists(store, << >>)
  /\ p \in DOMAIN fs
  /\ p \notin denied
  /\ denied' = denied \cup {p}
  /\ changes' = changes + 1
  /\ last' = [Quiet EXCEPT !.op = "fault"]
  /\ UNCHANGED <<platform, fs, store, stuck, snap, req, ops>>

\* the environment makes an object of the store unremovable
Stick(q) ==
  /\ changes < MaxChanges
  /\ ops < MaxOps
  /\ q \in DOMAIN store
  /\ q \notin stuck
  /\ stuck' = stuck \cup {q}
  /\ changes' = changes + 1
  /\ last' = [Quiet EXCEPT !.op = "fault"]
  /\ UNCHANGED <<platform, fs, store, denied, snap, req, ops>>

Next ==
  \/ \E folders \in FolderLists : Track(folders)
  \/ \E folders \in {<< >>, <<(<<"d">>)>>}, ord \in Orders : Reset(folders, ord)
  \/ List
  \/ Undo
  \/ \E e \in Edits : Edit(e[1], e[2])
  \/ \E name \in FaultNames : Deny(Append(Workdir, name))
  \/ \E p \in Sticky : Stick(Dest(platform, p))

Spec == Init /\ [][Next]_vars

\* ------------------------------------------------------------ properties
\* the last operation was a reset that went through the restore pass
Ran == last.op = "reset" /\ ~last.nothing /\ ~last.refused /\ ~last.crashed

\* the same kind, the same content, the same symlink target
Same(a, b) == a.k = b.k /\ a.d = b.d

\* the tree at folder r holds every object it held at the last track
Restored(r) == \A p \in Beneath(snap, r) : Same(At(fs, p), snap[p])

\* the last operation was a reset that enumerated the tracked folders as
\* its roots and reported no error
CleanReset == Ran /\ last.errors = 0 /\ last.roots = req.tracked

\* C1: after track, changes to the tracked tree and a reset, every object
\* the tree held at track time is back at its path with its kind, its
\* content and its symlink target (stated for the resets that report no
\* error and enumerate the tracked folders themselves).
C1_RoundTrip == CleanReset => \A r \in req.tracked : Restored(r)

\* C2: after a reset with zero errors nothing exists beneath a tracked
\* folder that did not exist there at the last track (stated for the resets
\* that enumerate the tracked folders themselves).
C2_NoStaleOriginal ==
  CleanReset => \A r \in req.tracked : Beneath(fs, r) \subseteq DOMAIN snap

\* the store object q is a directory above the destination of a folder of
\* the last track, or the copy of the object of that folder it stands for
FromLastTrack(q) ==
  \E r \in last.roots :
    LET dest == Dest(platform, r)
    IN \/ IsPrefix(q, dest) /\ q # dest /\ store[q].k = "dir"
       \/ /\ IsPrefix(dest, q)
          /\ Same(store[q], At(fs, r \o SubSeq(q, Len(dest) + 1, Len(q))))

\* C3: when a track returns, whatever happened to the objects of the old
\* store, the store holds only what this track captured.
C3_SingleGeneration ==
  last.op = "track" => \A q \in DOMAIN store \ {<< >>} : FromLastTrack(q)

\* C4: the folders that list and reset enumerate from the store are exactly
\* the resolved folders that the last track captured.
C4_RootsAreTracked ==
  (last.op \in {"list", "reset"} /\ ~last.nothing /\ ~last.refused)
    => last.roots = req.tracked

\* C5: a reset neither removes nor recreates the top-level directory of a
\* tracked folder.
C5_TopLevelKept ==
  Ran => \A r \in req.tracked : r \notin last.removed /\ r \notin last.created

C7_Idempotent ==
  [][(Ran /\ last.roots = req.tracked /\ denied = {}
        /\ ops' = ops + 1 /\ last'.op = "reset" /\ ~last'.given)
       => (fs' = fs /\ last'.errors <= last.errors)]_vars

\* C8: after undo no store exists.
C8_UndoClears == last.op = "undo" => ~Exists(store, << >>)

\* the store holds a copy of the whole tree at folder r
FullCopy(r) ==
  \A p \in {q \in DOMAIN fs : IsPrefix(r, q)} :
    Same(At(store, Dest(platform, r) \o SubSeq(p, Len(r) + 1, Len(p))), fs[p])

\* C9: a track that skipped a folder captured every valid folder in full
\* (stated for an environment without inaccessible objects), and a reset
\* that reports no error and enumerates the tracked folders themselves
\* restores the valid folders.
C9_SkipContained ==
  req.skipped
    => /\ (last.op = "track" /\ denied = {} /\ stuck = {})
            => \A r \in last.roots : r \in req.tracked /\ FullCopy(r)
       /\ CleanReset => \A r \in req.tracked : Restored(r)

\* C10: a reset that is given folders restores nothing and changes neither
\* the originals nor the store.
C10_FoldersRefused ==
  [][(ops' = ops + 1 /\ last'.op = "reset" /\ last'.given)
       => /\ fs' = fs
          /\ store' = store
          /\ last'.removed = {} /\ last'.created = {}
          /\ last'.refused \/ last'.nothing]_vars

\* a reset was refused although the store had something to restore
C10_Witness ==
  /\ last.op = "reset" /\ last.refused
  /\ \E r \in req.tracked : ~Restored(r)

\* the backup folder of every enumerated root is a directory of the store
\* itself (not a symlink to one)
RealRoots == \A r \in last.roots : At(store, Dest(platform, r)).k = "dir"

\* the entries of the store beneath the backup folders of the roots
RootEntries == UNION {Beneath(store, Dest(platform, r)) : r \in last.roots}

\* C11: the summary of a reset reports as directories the number of
\* directory entries beneath the roots (the roots themselves not counted)
\* and as files the number of file and symlink entries.
C11_SummaryCounts ==
  (Ran /\ RealRoots)
    => /\ last.dirs = Cardinality({q \in RootEntries : store[q].k = "dir"})
       /\ last.files
            = Cardinality({q \in RootEntries : store[q].k \in {"file", "link"}})

\* C12: track, list and undo leave every original as it is, and list
\* leaves the store as it is.
C12_OnlyResetMutates ==
  [][(ops' = ops + 1 /\ last'.op \in {"track", "list", "undo"})
       => /\ fs' = fs
          /\ last'.op = "list" => store' = store]_vars

\* the entries of the restore pass of a reset that starts in this state
PassEntries ==
  paths_to_reset(store, tracked_roots(platform, store, SomeOrder), SomeOrder)

\* C13: whatever is present at the original path of an entry when reset
\* starts (a file, a directory, a symlink to an existing target or a
\* dangling symlink) is removed in the pass before the entry is recreated
\* (stated for the resets that enumerate the tracked folders themselves, in
\* an environment without inaccessible originals).
C13_RemovedFirst ==
  [][(/\ ops' = ops + 1
      /\ last'.op = "reset" /\ ~last'.nothing /\ ~last'.refused
      /\ last'.roots = req.tracked
      /\ denied = {})
       => \A i \in 1..Len(PassEntries) :
            (PassEntries[i].orig # PassEntries[i].root
             /\ LExists(fs, PassEntries[i].orig))
              => LReal(fs, PassEntries[i].orig) \in last'.removed]_vars

\* C14: a reset that enumerates the store processes every entry of the pass
\* and reaches its summary, whatever fails on the way; no entry adds more
\* than one error.
C14_ErrorsContained ==
  (last.op = "reset" /\ ~last.nothing /\ ~last.refused)
    => /\ ~last.crashed
       /\ last.seen = Len(PassEntries)
       /\ last.errors <= last.seen

\* C15: when a track returns, every folder it was given that has a backup
\* folder in the store has a complete copy there; a folder whose copy failed
\* has none (stated for a store without unremovable objects).
C15_CompleteRoots ==
  (last.op = "track" /\ stuck = {})
    => \A r \in last.roots :
         LExists(store, Dest(platform, r)) => FullCopy(r)

\* the objects of the store that the last track copied
Copies == UNION {{q \in DOMAIN store : IsPrefix(Dest(platform, r), q)} :
                   r \in req.tracked}

\* C16: when a track returns, every regular file and every directory it
\* copied into the store is writable (stated for a store without
\* unremovable objects).
C16_WriteBitForced ==
  (last.op = "track" /\ stuck = {})
    => \A q \in Copies : store[q].k \in {"file", "dir"} => store[q].w

\* the path p lies in a folder that the last track captured
Captured(p) == \E r \in req.tracked : IsPrefix(r, p)

\* C17: a reset leaves every object outside the captured folders as it was:
\* it removes, overwrites and creates nothing there.
C17_SiblingsKept ==
  [][(ops' = ops + 1 /\ last'.op = "reset")
       => \A p \in DOMAIN fs \cup DOMAIN fs' :
            ~Captured(p) => At(fs', p) = At(fs, p)]_vars

\* C18: what one step of a reset's pass has restored is not removed by a
\* later step of the same pass.
C18_RestoredStays == last.op = "reset" => last.undone = {}

====
